---- MODULE Spec2Model ----
(***************************************************************************)
(* Model of src/ecs.py: ElevatorControlSystem and Elevator.                *)
(*                                                                         *)
(* The state is the object graph of one ElevatorControlSystem: the list    *)
(* of Elevator objects and the list of pending pickup requests.  Every     *)
(* public method (update, pickup, step) is one action that models the      *)
(* whole call, including a call that ends by raising IndexError: the       *)
(* object keeps whatever the call had already mutated.                     *)
(*                                                                         *)
(* History variables (lastCall, pickedBefore, request_ids, nextRid,        *)
(* assignCount, firstStep, stepLog, trip, nUpdates, draining, wasBusy,     *)
(* built, givenGoal) observe the calls; no action of the program reads     *)
(* them, except the call budgets.                                          *)
(***************************************************************************)
EXTENDS Integers, Sequences, FiniteSets

VARIABLES
    elevators,        \* self.elevators: 0-based list of Elevator objects
    pickup_requests,  \* self.pickup_requests: list of [pickup_floor, direction]
    lastCall,         \* the most recent call and how it ended
    pickedBefore,     \* history: when lastCall is a step() that directly followed a
                      \* pickup(), the request of that pickup(); <<>> otherwise
    request_ids,      \* history: identity of each entry of pickup_requests
    nextRid,          \* history: number of pickup() calls made so far
    assignCount,      \* history: request id -> number of times step() assigned it
    firstStep,        \* history: request id -> how the first step() called after the
                      \* request was queued ended ("none" while there was no such call)
    stepLog,          \* history: the log of the assignment loop when lastCall is a step()
    trip,             \* history: per elevator, the assignment it is serving
    nUpdates,         \* history: number of update() calls made so far
    draining,         \* history: TRUE once the caller only calls step()
    wasBusy,          \* history: elevators that were busy when draining began
    built,            \* history: the num_elevators the system was constructed with
    givenGoal         \* history: elevators that step() or update() ever gave a goal

vars == <<elevators, pickup_requests, lastCall, pickedBefore, request_ids, nextRid,
          assignCount, firstStep, stepLog, trip, nUpdates, draining, wasBusy,
          built, givenGoal>>

----------------------------------------------------------------------------
(* Bounds of the model *)

MaxElevators == 2
MaxFloor == 1
MaxPickups == 3
MaxUpdates == 1

(* Program constants *)

InitialFloor == 1
NoGoal == -1

Floors == NoGoal..MaxFloor
Directions == {-1, 0, 1}
RequestIds == 0..(MaxPickups - 1)

Abs(x) == IF x < 0 THEN -x ELSE x

Sign(x) == IF x < 0 THEN -1 ELSE IF x > 0 THEN 1 ELSE 0

----------------------------------------------------------------------------
(* class Elevator *)

\* Variant: a new elevator starts on floor 0.
Elevator_AtGround(elevator_id) ==
    [elevator_id |-> elevator_id,
     current_floor |-> 0,
     goal_floor |-> NoGoal,
     is_fulfilling_request |-> FALSE]

Elevator(elevator_id) ==
    [elevator_id |-> elevator_id,
     current_floor |-> InitialFloor,
     goal_floor |-> NoGoal,
     is_fulfilling_request |-> FALSE]

\* Variant: an update also marks the elevator as not busy.
Elevator_update_ClearsBusy(e, floor_number, goal_floor) ==
    [e EXCEPT !.current_floor = floor_number, !.goal_floor = goal_floor,
              !.is_fulfilling_request = FALSE]

\* Variant: an update stores the floor number in the id field as well.
Elevator_update_Renumbers(e, floor_number, goal_floor) ==
    [e EXCEPT !.elevator_id = floor_number,
              !.current_floor = floor_number, !.goal_floor = goal_floor]

Elevator_update(e, floor_number, goal_floor) ==
    [e EXCEPT !.current_floor = floor_number, !.goal_floor = goal_floor]

Elevator_status(e) == <<e.elevator_id, e.current_floor, e.goal_floor>>

get_direction(e) == e.goal_floor - e.current_floor

----------------------------------------------------------------------------
(* class ElevatorControlSystem *)

\* [Elevator(x) for x in range(num_elevators)]
NewElevators(num_elevators) == [x \in 0..(num_elevators - 1) |-> Elevator(x)]

status(elevs) == [i \in DOMAIN elevs |-> Elevator_status(elevs[i])]

\* Python list indexing self.elevators[elevator_id]: the set holding the
\* position the index denotes, empty when the indexing raises IndexError.
\* A negative index -n <= i < 0 denotes position n + i.
ListIndex(elevs, i) ==
    LET n == Cardinality(DOMAIN elevs)
    IN  IF 0 <= i /\ i < n THEN {i}
        ELSE IF -n <= i /\ i < 0 THEN {n + i}
        ELSE {}

\* Variant: the direction tests are not strict, so an elevator of direction
\* 0 matches every request of nonzero direction.
AllOffsetsKeys_NonStrict(elevs, pickup_request) ==
    LET direction == pickup_request[2]
    IN  {i \in DOMAIN elevs :
            /\ \/ direction < 0 /\ get_direction(elevs[i]) <= 0
               \/ direction > 0 /\ get_direction(elevs[i]) >= 0
            /\ ~elevs[i].is_fulfilling_request}

\* Keys of all_offsets: elevators matching the request's direction and not busy.
AllOffsetsKeys(elevs, pickup_request) ==
    LET direction == pickup_request[2]
    IN  {i \in DOMAIN elevs :
            /\ \/ direction < 0 /\ get_direction(elevs[i]) < 0
               \/ direction > 0 /\ get_direction(elevs[i]) > 0
            /\ ~elevs[i].is_fulfilling_request}

\* all_offsets[key]
Delta(elevs, pickup_request, i) == Abs(pickup_request[1] - elevs[i].current_floor)

\* [x for x in self.elevators if not x.is_fulfilling_request]
FallbackPopulation(elevs) ==
    {i \in DOMAIN elevs : ~elevs[i].is_fulfilling_request}

\* Variant: the fallback draws from all elevators, busy ones included.
find_elevator_AnyElevator(elevs, pickup_request) ==
    LET all_offsets == AllOffsetsKeys(elevs, pickup_request)
    IN  IF Cardinality(all_offsets) = 1 THEN
            {elevs[i].elevator_id : i \in all_offsets}
        ELSE IF Cardinality(all_offsets) = 0 THEN
            {elevs[i].elevator_id : i \in DOMAIN elevs}
        ELSE
            {elevs[i].elevator_id : i \in
                {k \in all_offsets :
                    \A j \in all_offsets :
                        Delta(elevs, pickup_request, k) <= Delta(elevs, pickup_request, j)}}

\* Variant: among several candidates the one of maximal delta is returned.
find_elevator_Farthest(elevs, pickup_request) ==
    LET all_offsets == AllOffsetsKeys(elevs, pickup_request)
    IN  IF Cardinality(all_offsets) = 1 THEN
            {elevs[i].elevator_id : i \in all_offsets}
        ELSE IF Cardinality(all_offsets) = 0 THEN
            {elevs[i].elevator_id : i \in FallbackPopulation(elevs)}
        ELSE
            {elevs[i].elevator_id : i \in
                {k \in all_offsets :
                    \A j \in all_offsets :
                        Delta(elevs, pickup_request, k) >= Delta(elevs, pickup_request, j)}}

\* The set of ids the call may return; the empty set when random.choice
\* raises IndexError on an empty population.  The iteration order of the
\* dictionary is not fixed by the language, so any key of minimal value may
\* be the one returned.
find_elevator_for_pickup_request(elevs, pickup_request) ==
    LET all_offsets == AllOffsetsKeys(elevs, pickup_request)
    IN  IF Cardinality(all_offsets) = 1 THEN
            {elevs[i].elevator_id : i \in all_offsets}
        ELSE IF Cardinality(all_offsets) = 0 THEN
            {elevs[i].elevator_id : i \in FallbackPopulation(elevs)}
        ELSE
            {elevs[i].elevator_id : i \in
                {k \in all_offsets :
                    \A j \in all_offsets :
                        Delta(elevs, pickup_request, k) <= Delta(elevs, pickup_request, j)}}

\* Variant: the assignment marks the elevator busy but leaves its goal.
AssignRequest_KeepsGoal(elevs, id, pickup_request) ==
    [elevs EXCEPT ![id] = [elevs[id] EXCEPT !.is_fulfilling_request = TRUE]]

\* Body of the assignment loop for one request and the elevator found for it.
AssignRequest(elevs, id, pickup_request) ==
    [elevs EXCEPT ![id] =
        [Elevator_update(elevs[id], elevs[id].current_floor, pickup_request[1])
            EXCEPT !.is_fulfilling_request = TRUE]]

\* The assignment loop of step() over the requests from position k on.
\* The set of its possible outcomes: the elevators as the loop leaves them,
\* whether it ran to completion (ok) or raised, and a log with one entry per
\* request it processed: the elevators as the request found them, the
\* request, and the id found for it ({} when the search raised).
RECURSIVE AssignmentPhase(_, _, _, _)
AssignmentPhase(elevs, requests, k, log) ==
    IF k > Len(requests) THEN
        {[elevators |-> elevs, ok |-> TRUE, log |-> log]}
    ELSE
        LET ids == find_elevator_for_pickup_request(elevs, requests[k])
            Entry(found) == [before |-> elevs, request |-> requests[k], found |-> found]
        IN  IF ids = {} THEN
                {[elevators |-> elevs, ok |-> FALSE, log |-> Append(log, Entry({}))]}
            ELSE
                UNION {AssignmentPhase(AssignRequest(elevs, id, requests[k]),
                                       requests, k + 1, Append(log, Entry({id}))) :
                       id \in ids}

\* Variant: an elevator away from its goal moves whether or not it is busy.
MoveElevator_MovesIdle(e) ==
    IF e.current_floor = e.goal_floor THEN [e EXCEPT !.is_fulfilling_request = FALSE]
    ELSE IF get_direction(e) < 0 THEN [e EXCEPT !.current_floor = @ - 1]
    ELSE [e EXCEPT !.current_floor = @ + 1]

\* Variant: a busy elevator that is one floor from its goal jumps past it
\* to the goal and is marked arrived in the same step.
MoveElevator_ArrivesEarly(e) ==
    LET arrived == IF e.current_floor = e.goal_floor
                   THEN [e EXCEPT !.is_fulfilling_request = FALSE]
                   ELSE e
    IN  IF arrived.is_fulfilling_request THEN
            [arrived EXCEPT !.current_floor = e.goal_floor]
        ELSE arrived

\* Variant: arrival is not tested, a busy elevator always moves.
MoveElevator_NeverArrives(e) ==
    IF e.is_fulfilling_request THEN
        IF get_direction(e) < 0
        THEN [e EXCEPT !.current_floor = @ - 1]
        ELSE [e EXCEPT !.current_floor = @ + 1]
    ELSE e

\* Body of the motion loop of step() for one elevator.
MoveElevator(e) ==
    LET arrived == IF e.current_floor = e.goal_floor
                   THEN [e EXCEPT !.is_fulfilling_request = FALSE]
                   ELSE e
    IN  IF arrived.is_fulfilling_request THEN
            IF get_direction(arrived) < 0
            THEN [arrived EXCEPT !.current_floor = @ - 1]
            ELSE [arrived EXCEPT !.current_floor = @ + 1]
        ELSE arrived

MotionPhase(elevs) == [i \in DOMAIN elevs |-> MoveElevator(elevs[i])]

\* Variant: a request already in the queue is not queued again.
pickup_Dedup(requests, pickup_floor, direction) ==
    IF \E p \in 1..Len(requests) : requests[p] = <<pickup_floor, direction>>
    THEN requests
    ELSE Append(requests, <<pickup_floor, direction>>)

\* pickup(): the queue after the call.
pickup(requests, pickup_floor, direction) ==
    Append(requests, <<pickup_floor, direction>>)

\* update(): the elevators after the call and whether it returned (ok) or
\* raised IndexError.
update(elevs, elevator_id, floor_number, goal_floor) ==
    LET pos == ListIndex(elevs, elevator_id)
    IN  IF pos = {} THEN [elevators |-> elevs, ok |-> FALSE]
        ELSE LET p == CHOOSE q \in pos : TRUE
             IN  [elevators |->
                      [elevs EXCEPT ![p] = Elevator_update(elevs[p], floor_number, goal_floor)],
                  ok |-> TRUE]

\* Variant: the motion loop runs before the assignment loop, so an elevator
\* assigned in a step() first moves in the next one.
step_MotionFirst(elevs, requests) ==
    {IF o.ok
     THEN [elevators |-> o.elevators, pickup_requests |-> <<>>,
           ok |-> TRUE, log |-> o.log]
     ELSE [elevators |-> o.elevators, pickup_requests |-> requests,
           ok |-> FALSE, log |-> o.log] :
     o \in AssignmentPhase(MotionPhase(elevs), requests, 1, <<>>)}

\* Variant: a step() that completes leaves the queue as it was.
step_KeepsQueue(elevs, requests) ==
    {IF o.ok
     THEN [elevators |-> MotionPhase(o.elevators), pickup_requests |-> requests,
           ok |-> TRUE, log |-> o.log]
     ELSE [elevators |-> o.elevators, pickup_requests |-> requests,
           ok |-> FALSE, log |-> o.log] :
     o \in AssignmentPhase(elevs, requests, 1, <<>>)}

\* step(): the set of possible outcomes of the call.  When the assignment
\* loop raises, neither the del statement nor the motion loop is reached.
step(elevs, requests) ==
    {IF o.ok
     THEN [elevators |-> MotionPhase(o.elevators), pickup_requests |-> <<>>,
           ok |-> TRUE, log |-> o.log]
     ELSE [elevators |-> o.elevators, pickup_requests |-> requests,
           ok |-> FALSE, log |-> o.log] :
     o \in AssignmentPhase(elevs, requests, 1, <<>>)}

----------------------------------------------------------------------------
(* History of calls *)

Call(op, ok, args) == [op |-> op, ok |-> ok, args |-> args]

NoTrip == [active |-> FALSE, from |-> 0, to |-> 0, steps |-> 0, clean |-> TRUE]

\* Positions of the queue that the outcome o of step() assigned to elevator i.
AssignedPositions(o, i) == {p \in 1..Len(o.log) : o.log[p].found = {i}}

\* The history of elevator i after a step() with outcome o: a new trip when
\* the step assigned it a request, one more step() call on its trip otherwise.
TripAfterStep(o, i) ==
    IF AssignedPositions(o, i) # {} THEN
        LET p == CHOOSE q \in AssignedPositions(o, i) :
                     \A r \in AssignedPositions(o, i) : r <= q
        IN  [active |-> TRUE,
             from |-> elevators[i].current_floor,
             to |-> pickup_requests[p][1],
             steps |-> 1,
             clean |-> o.ok]
    ELSE IF trip[i].active THEN
        [trip[i] EXCEPT
            !.steps = IF @ <= Abs(trip[i].to - trip[i].from) THEN @ + 1 ELSE @,
            !.clean = @ /\ o.ok]
    ELSE trip[i]

AssignCountAfterStep(o) ==
    [r \in RequestIds |->
        assignCount[r] +
        Cardinality({p \in 1..Len(o.log) : o.log[p].found # {} /\ request_ids[p] = r})]

QueuedIds == {request_ids[p] : p \in 1..Len(request_ids)}

FirstStepAfterStep(o) ==
    [r \in RequestIds |->
        IF r \in QueuedIds /\ firstStep[r] = "none"
        THEN (IF o.ok THEN "ok" ELSE "failed")
        ELSE firstStep[r]]

NumElevators == Cardinality(DOMAIN elevators)

BusySet == {i \in DOMAIN elevators : elevators[i].is_fulfilling_request}

----------------------------------------------------------------------------
(* The state machine *)

\* ElevatorControlSystem(num_elevators)
Init ==
    /\ \E num_elevators \in 1..MaxElevators :
          /\ elevators = NewElevators(num_elevators)
          /\ lastCall = Call("init", TRUE, <<num_elevators>>)
          /\ trip = [i \in 0..(num_elevators - 1) |-> NoTrip]
          /\ built = num_elevators
    /\ pickup_requests = <<>>
    /\ pickedBefore = <<>>
    /\ request_ids = <<>>
    /\ nextRid = 0
    /\ assignCount = [r \in RequestIds |-> 0]
    /\ firstStep = [r \in RequestIds |-> "none"]
    /\ stepLog = <<>>
    /\ nUpdates = 0
    /\ draining = FALSE
    /\ wasBusy = {}
    /\ givenGoal = {}

Update ==
    /\ ~draining
    /\ nUpdates < MaxUpdates
    /\ \E elevator_id \in (-(NumElevators + 1))..NumElevators,
          floor_number \in Floors, goal_floor \in Floors :
          LET o == update(elevators, elevator_id, floor_number, goal_floor)
          IN  /\ elevators' = o.elevators
              /\ lastCall' = Call("update", o.ok, <<elevator_id, floor_number, goal_floor>>)
              /\ trip' = [i \in DOMAIN elevators |->
                             IF o.ok /\ i \in ListIndex(elevators, elevator_id)
                             THEN NoTrip ELSE trip[i]]
              /\ givenGoal' = IF o.ok
                              THEN givenGoal \cup ListIndex(elevators, elevator_id)
                              ELSE givenGoal
    /\ pickedBefore' = <<>>
    /\ nUpdates' = nUpdates + 1
    /\ stepLog' = <<>>
    /\ UNCHANGED <<pickup_requests, request_ids, nextRid, assignCount, firstStep,
                   draining, wasBusy, built>>

Pickup ==
    /\ ~draining
    /\ nextRid < MaxPickups
    /\ \E pickup_floor \in Floors, direction \in Directions :
          /\ pickup_requests' = pickup(pickup_requests, pickup_floor, direction)
          /\ lastCall' = Call("pickup", TRUE, <<pickup_floor, direction>>)
    /\ pickedBefore' = <<>>
    /\ request_ids' = Append(request_ids, nextRid)
    /\ nextRid' = nextRid + 1
    /\ stepLog' = <<>>
    /\ UNCHANGED <<elevators, assignCount, firstStep, trip, nUpdates, draining, wasBusy,
                   built, givenGoal>>

Step ==
    /\ \E o \in step(elevators, pickup_requests) :
          /\ elevators' = o.elevators
          /\ pickup_requests' = o.pickup_requests
          /\ request_ids' = IF o.pickup_requests = <<>> THEN <<>> ELSE request_ids
          /\ lastCall' = Call("step", o.ok, <<>>)
          /\ assignCount' = AssignCountAfterStep(o)
          /\ trip' = [i \in DOMAIN elevators |-> TripAfterStep(o, i)]
          /\ stepLog' = o.log
          /\ firstStep' = FirstStepAfterStep(o)
          /\ givenGoal' = givenGoal \cup
                 {i \in DOMAIN elevators : AssignedPositions(o, i) # {}}
    /\ pickedBefore' = IF lastCall.op = "pickup" THEN lastCall.args ELSE <<>>
    /\ UNCHANGED <<nextRid, nUpdates, draining, wasBusy, built>>

\* The caller stops calling pickup() and update().
StartDrain ==
    /\ ~draining
    /\ draining' = TRUE
    /\ wasBusy' = BusySet
    /\ UNCHANGED <<elevators, pickup_requests, lastCall, pickedBefore, request_ids,
                   nextRid, assignCount, firstStep, stepLog, trip, nUpdates,
                   built, givenGoal>>

Next == Update \/ Pickup \/ Step

Spec == Init /\ [][Next]_vars

NextDrain == Update \/ Pickup \/ Step \/ StartDrain

\* The caller calls step() again and again.
DrainSpec == Init /\ [][NextDrain]_vars /\ WF_vars(Step)

\* The caller keeps calling step(), between whatever other calls it makes.
FairSpec == Init /\ [][Next]_vars /\ WF_vars(Step)

----------------------------------------------------------------------------
(* Properties *)

ElevatorIds == DOMAIN elevators

IssuedIds == 0..(nextRid - 1)

\* The last call was a step() that directly followed pickup(f, d) with d # 0.
StepAfterPickup ==
    /\ lastCall.op = "step"
    /\ pickedBefore # <<>>
    /\ pickedBefore[2] # 0

PickupServed ==
    /\ pickup_requests = <<>>
    /\ \E i \in ElevatorIds : elevators[i].goal_floor = pickedBefore[1]

----------------------------------------------------------------------------

FreeCount == NumElevators - Cardinality(BusySet)

TripLength(i) == Abs(trip[i].to - trip[i].from)

\* Every elevator that was busy when draining began is at its goal, not busy.
Arrived ==
    \A i \in wasBusy :
        /\ elevators[i].current_floor = elevators[i].goal_floor
        /\ ~elevators[i].is_fulfilling_request

\* Moreover no request is pending and no elevator at all is busy.
Settled ==
    /\ Arrived
    /\ pickup_requests = <<>>
    /\ \A i \in ElevatorIds : ~elevators[i].is_fulfilling_request

Stationary ==
    [][(draining /\ Settled) =>
          \A i \in ElevatorIds :
              /\ elevators'[i].current_floor = elevators[i].current_floor
              /\ elevators'[i].goal_floor = elevators[i].goal_floor
              /\ elevators'[i].is_fulfilling_request = elevators[i].is_fulfilling_request]_vars

----------------------------------------------------------------------------

\* C3 as stated: a request is assigned exactly once, by the first step()
\* called after it was queued, and is then no longer in the queue; before
\* that it is in the queue, not assigned.
C3_Original ==
    \A r \in IssuedIds :
        IF firstStep[r] = "none"
        THEN assignCount[r] = 0 /\ r \in QueuedIds
        ELSE assignCount[r] = 1 /\ r \notin QueuedIds

\* C3 amended: a request is assigned at most once over any sequence of
\* calls.  Until a step() is called it is in the queue, not assigned.  When
\* the first step() called after it was queued completes without raising,
\* that step assigns it exactly once and removes it from the queue.  When
\* that step() raises, the request stays in the queue.
C3_ConsumedOnce ==
    \A r \in IssuedIds :
        /\ assignCount[r] <= 1
        /\ firstStep[r] = "none" => (assignCount[r] = 0 /\ r \in QueuedIds)
        /\ firstStep[r] = "ok" => (assignCount[r] = 1 /\ r \notin QueuedIds)
        /\ firstStep[r] = "failed" => r \in QueuedIds

\* Two requests were each assigned once by a completed step() and are gone
\* from the queue; a third is queued and waits for its first step().
C3_Witness ==
    /\ nextRid = 3
    /\ firstStep[0] = "ok" /\ assignCount[0] = 1
    /\ firstStep[1] = "ok" /\ assignCount[1] = 1
    /\ firstStep[2] = "none" /\ assignCount[2] = 0
    /\ QueuedIds = {2}

----------------------------------------------------------------------------

\* C4 as stated: a call that fails leaves the elevators and the queue as
\* they were before the call.
C4_Original ==
    [][~lastCall'.ok => (elevators' = elevators /\ pickup_requests' = pickup_requests)]_vars

----------------------------------------------------------------------------

\* C5 as stated: update() with an id outside [0, num_elevators) fails and
\* leaves every elevator unchanged.
C5_Original ==
    [][(lastCall'.op = "update" /\ lastCall'.args[1] \notin 0..(NumElevators - 1)) =>
          (~lastCall'.ok /\ elevators' = elevators)]_vars

----------------------------------------------------------------------------

\* An elevator matches a request when its direction has the request's sign.
SameSign(e, pickup_request) ==
    \/ pickup_request[2] < 0 /\ e.goal_floor < e.current_floor
    \/ pickup_request[2] > 0 /\ e.goal_floor > e.current_floor

NoCandidate(entry) ==
    \A i \in DOMAIN entry.before :
        entry.before[i].is_fulfilling_request \/ ~SameSign(entry.before[i], entry.request)

AllBusy(entry) ==
    \A i \in DOMAIN entry.before : entry.before[i].is_fulfilling_request

\* C6: when step() processes a request that has no candidate, the request
\* goes to an elevator that is not busy at that moment; when every elevator
\* is busy at that moment, step() raises and assigns the request to no
\* elevator.
C6_Fallback ==
    lastCall.op = "step" =>
        \A p \in 1..Len(stepLog) :
            NoCandidate(stepLog[p]) =>
                IF AllBusy(stepLog[p])
                THEN /\ stepLog[p].found = {}
                     /\ ~lastCall.ok
                     /\ p = Len(stepLog)
                     /\ elevators = stepLog[p].before
                ELSE \E i \in DOMAIN stepLog[p].before :
                        /\ stepLog[p].found = {i}
                        /\ ~stepLog[p].before[i].is_fulfilling_request

\* A step() whose first request fell back to an elevator that was not busy
\* while another was, and whose second request found every elevator busy.
C6_Witness ==
    /\ lastCall.op = "step"
    /\ ~lastCall.ok
    /\ Len(stepLog) = 2
    /\ NoCandidate(stepLog[1])
    /\ \E i, j \in DOMAIN stepLog[1].before :
          /\ stepLog[1].before[i].is_fulfilling_request
          /\ stepLog[1].found = {j}
    /\ AllBusy(stepLog[2])

----------------------------------------------------------------------------

\* C7: right after construction with N elevators, status() has N entries,
\* the i-th being (i, 1, -1), no elevator is busy and the queue is empty.
C7_Construction ==
    lastCall.op = "init" =>
        LET N == lastCall.args[1]
        IN  /\ N >= 1
            /\ DOMAIN status(elevators) = 0..(N - 1)
            /\ \A i \in 0..(N - 1) : status(elevators)[i] = <<i, 1, -1>>
            /\ \A i \in 0..(N - 1) : ~elevators[i].is_fulfilling_request
            /\ pickup_requests = <<>>

\* A system constructed with the largest number of elevators of the model.
C7_Witness ==
    /\ lastCall.op = "init"
    /\ lastCall.args[1] = MaxElevators
    /\ status(elevators)[MaxElevators - 1] = <<MaxElevators - 1, 1, -1>>

----------------------------------------------------------------------------

\* Elevator i is busy when the motion loop of the step() being taken reaches
\* it: it was busy before the call or the assignment loop assigned it.
BusyInMotionPhase(i) ==
    \/ elevators[i].is_fulfilling_request
    \/ \E p \in 1..Len(stepLog') : stepLog'[p].found = {i}

\* C8: in every step() each elevator's current_floor changes by at most
\* one; an elevator that is busy and not at its goal in the motion phase ends
\* exactly one floor nearer to its goal; an elevator that is not busy in the
\* motion phase does not move, whatever its goal.
C8_OneFloorPerStep ==
    [][lastCall'.op = "step" =>
          \A i \in ElevatorIds :
              LET c == elevators[i].current_floor
                  c2 == elevators'[i].current_floor
                  g == elevators'[i].goal_floor
              IN  /\ Abs(c2 - c) <= 1
                  /\ (lastCall'.ok /\ BusyInMotionPhase(i) /\ c # g) =>
                        Abs(g - c2) = Abs(g - c) - 1
                  /\ (lastCall'.ok /\ ~BusyInMotionPhase(i)) => c2 = c]_vars

\* After a step(): one elevator has moved on a trip of two floors, and
\* another, not busy and away from its goal, is where it was constructed.
C8_Witness ==
    /\ lastCall.op = "step"
    /\ lastCall.ok
    /\ \E i, j \in ElevatorIds :
          /\ trip[i].active
          /\ Abs(trip[i].to - trip[i].from) = 2
          /\ elevators[i].current_floor # trip[i].from
          /\ ~elevators[j].is_fulfilling_request
          /\ ~trip[j].active
          /\ elevators[j].current_floor = InitialFloor
          /\ elevators[j].goal_floor = NoGoal

----------------------------------------------------------------------------

\* Where elevator i is expected after the step() calls counted on its trip.
OnCourse(i) ==
    IF trip[i].steps <= TripLength(i)
    THEN elevators[i].current_floor =
             trip[i].from + Sign(trip[i].to - trip[i].from) * trip[i].steps
    ELSE /\ elevators[i].current_floor = trip[i].to
         /\ ~elevators[i].is_fulfilling_request

----------------------------------------------------------------------------

\* C10: pickup() succeeds for every floor and direction, appends exactly
\* the request [floor, direction] after the entries already queued, which
\* stay in order, and leaves every elevator as it was.
C10_PickupAppends ==
    [][lastCall'.op = "pickup" =>
          /\ lastCall'.ok
          /\ Len(pickup_requests') = Len(pickup_requests) + 1
          /\ \A p \in 1..Len(pickup_requests) : pickup_requests'[p] = pickup_requests[p]
          /\ pickup_requests'[Len(pickup_requests')] = lastCall'.args
          /\ elevators' = elevators]_vars

\* A pickup() has queued a second copy of a request with direction 0, for a
\* floor no elevator was built on.
C10_Witness ==
    /\ lastCall.op = "pickup"
    /\ lastCall.args = <<NoGoal, 0>>
    /\ Len(pickup_requests) = 2
    /\ pickup_requests[1] = pickup_requests[2]

----------------------------------------------------------------------------

\* C11: update() with an id in [0, num_elevators) sets that elevator's
\* current_floor and goal_floor to the arguments and changes nothing else:
\* not its busy flag or id, not any other elevator, not the queue.
C11_UpdateFrame ==
    [][(lastCall'.op = "update" /\ lastCall'.args[1] \in 0..(NumElevators - 1)) =>
          LET id == lastCall'.args[1]
          IN  /\ lastCall'.ok
              /\ DOMAIN elevators' = DOMAIN elevators
              /\ elevators'[id].current_floor = lastCall'.args[2]
              /\ elevators'[id].goal_floor = lastCall'.args[3]
              /\ elevators'[id].is_fulfilling_request = elevators[id].is_fulfilling_request
              /\ elevators'[id].elevator_id = elevators[id].elevator_id
              /\ \A j \in ElevatorIds \ {id} : elevators'[j] = elevators[j]
              /\ pickup_requests' = pickup_requests]_vars

\* An update() has moved a busy elevator and changed its goal while another
\* elevator was busy too and a request was pending.
C11_Witness ==
    /\ lastCall.op = "update"
    /\ lastCall.ok
    /\ lastCall.args[1] = 0
    /\ NumElevators = 2
    /\ elevators[0].is_fulfilling_request
    /\ elevators[0].current_floor = lastCall.args[2]
    /\ elevators[0].goal_floor = lastCall.args[3]
    /\ elevators[0].goal_floor # trip[1].to
    /\ elevators[1].is_fulfilling_request
    /\ trip[1].active
    /\ Len(pickup_requests) = 1

----------------------------------------------------------------------------

\* C12: after any sequence of calls on a system built with N elevators,
\* status() has exactly N entries and the entry at index i carries id i.
C12_FixedElevators ==
    /\ DOMAIN status(elevators) = 0..(built - 1)
    /\ \A i \in 0..(built - 1) : status(elevators)[i][1] = i

\* A system built with two elevators after three pickups, an update and a
\* step that assigned requests to both elevators.
C12_Witness ==
    /\ built = 2
    /\ nextRid = 3
    /\ nUpdates = 1
    /\ lastCall.op = "step"
    /\ Len(stepLog) >= 2
    /\ givenGoal = {0, 1}
    /\ status(elevators)[1][1] = 1

----------------------------------------------------------------------------

\* Elevator i is a candidate for the request of a log entry: not busy, and
\* its goal lies strictly on the side of it that the request's direction names.
IsCandidate(entry, i) ==
    /\ ~entry.before[i].is_fulfilling_request
    /\ SameSign(entry.before[i], entry.request)

CandidatesOf(entry) == {i \in DOMAIN entry.before : IsCandidate(entry, i)}

Distance(entry, i) == Abs(entry.request[1] - entry.before[i].current_floor)

\* C13: for a request with nonzero direction that has at least one
\* candidate, the search returns a candidate whose distance to the pickup
\* floor is minimal among the candidates; never a busy elevator, never one
\* of another direction.
C13_ClosestCandidate ==
    lastCall.op = "step" =>
        \A p \in 1..Len(stepLog) :
            (stepLog[p].request[2] # 0 /\ CandidatesOf(stepLog[p]) # {}) =>
                \E i \in CandidatesOf(stepLog[p]) :
                    /\ stepLog[p].found = {i}
                    /\ \A j \in CandidatesOf(stepLog[p]) :
                          Distance(stepLog[p], i) <= Distance(stepLog[p], j)

\* A step() processed a request that had two candidates at different
\* distances and gave it to the nearer one.
C13_Witness ==
    /\ lastCall.op = "step"
    /\ Len(stepLog) >= 1
    /\ \E i, j \in CandidatesOf(stepLog[1]) :
          /\ Distance(stepLog[1], i) < Distance(stepLog[1], j)
          /\ stepLog[1].found = {i}

----------------------------------------------------------------------------

\* In the step() being taken, elevator i is still as constructed when the
\* assignment loop reaches the p-th request: no call gave it a goal before
\* this step, and no earlier request of this step was assigned to it.
FreshAt(p, i) ==
    /\ i \notin givenGoal
    /\ \A q \in 1..(p - 1) : stepLog'[q].found # {i}

\* Elevator i stands on its goal floor when the loop reaches the p-th request.
AtGoalAt(p, i) ==
    stepLog'[p].before[i].current_floor = stepLog'[p].before[i].goal_floor

\* The candidate set the search builds for the p-th request.
CandidateSetAt(p) == AllOffsetsKeys(stepLog'[p].before, stepLog'[p].request)

\* C14 as stated: neither an elevator still as constructed nor one standing
\* on its goal floor is in the candidate set of a request, whatever the
\* direction of the request.
C14_Original ==
    [][lastCall'.op = "step" =>
          \A p \in 1..Len(stepLog') : \A i \in ElevatorIds :
              (FreshAt(p, i) \/ AtGoalAt(p, i)) => i \notin CandidateSetAt(p)]_vars

\* C14 amended: an elevator standing on its goal floor is in the candidate
\* set of no request and is chosen only when the candidate set is empty.  An
\* elevator still as constructed (floor 1, goal -1, direction -2) is in the
\* candidate set of no up request and of every down request.
C14_IdleCandidates ==
    [][lastCall'.op = "step" =>
          \A p \in 1..Len(stepLog') : \A i \in ElevatorIds :
              /\ AtGoalAt(p, i) => i \notin CandidateSetAt(p)
              /\ (AtGoalAt(p, i) /\ stepLog'[p].found = {i}) => CandidateSetAt(p) = {}
              /\ (FreshAt(p, i) /\ stepLog'[p].request[2] > 0) => i \notin CandidateSetAt(p)
              /\ (FreshAt(p, i) /\ stepLog'[p].request[2] < 0) => i \in CandidateSetAt(p)]_vars

\* The only calls so far are one pickup() of a down request and one step(),
\* on two elevators: both were still as constructed, both were candidates,
\* and the request went to one of them.
C14_Witness ==
    /\ lastCall.op = "step"
    /\ built = 2
    /\ nUpdates = 0
    /\ nextRid = 1
    /\ assignCount[0] = 1
    /\ Len(stepLog) = 1
    /\ stepLog[1].request[2] < 0
    /\ stepLog[1].before = NewElevators(2)
    /\ AllOffsetsKeys(stepLog[1].before, stepLog[1].request) = {0, 1}
    /\ stepLog[1].found # {}

----------------------------------------------------------------------------

\* C15: when a step() returns, every elevator it assigned a request for a
\* floor f other than the floor c it stood on has goal_floor f, is busy, and
\* is exactly one floor nearer to f than c.
C15_MovesInSameStep ==
    (lastCall.op = "step" /\ lastCall.ok) =>
        \A p \in 1..Len(stepLog) : \A i \in ElevatorIds :
            LET c == stepLog[p].before[i].current_floor
                f == stepLog[p].request[1]
            IN  (stepLog[p].found = {i} /\ f # c) =>
                    /\ elevators[i].goal_floor = f
                    /\ elevators[i].is_fulfilling_request
                    /\ Abs(f - elevators[i].current_floor) = Abs(f - c) - 1

\* A step() has returned after assigning an elevator a request two floors
\* away; the elevator is now one floor away, busy.
C15_Witness ==
    /\ lastCall.op = "step"
    /\ lastCall.ok
    /\ \E p \in 1..Len(stepLog) : \E i \in ElevatorIds :
          /\ stepLog[p].found = {i}
          /\ Abs(stepLog[p].request[1] - stepLog[p].before[i].current_floor) = 2
          /\ Abs(stepLog[p].request[1] - elevators[i].current_floor) = 1
          /\ elevators[i].goal_floor = stepLog[p].request[1]
          /\ elevators[i].is_fulfilling_request

----------------------------------------------------------------------------

\* C16 as stated: right after a step() has returned, an elevator whose
\* current_floor equals its goal_floor is not busy.
C16_Original ==
    (lastCall.op = "step" /\ lastCall.ok) =>
        \A i \in ElevatorIds :
            elevators[i].current_floor = elevators[i].goal_floor =>
                ~elevators[i].is_fulfilling_request

\* C16 amended: a step() that returns leaves not busy every elevator that
\* stood on its goal floor when the motion loop reached it; an elevator that
\* is on its goal floor and still busy after the step() was moved onto that
\* floor by this very step().
C16_ClearedOneStepLater ==
    [][(lastCall'.op = "step" /\ lastCall'.ok) =>
          \A i \in ElevatorIds :
              /\ elevators[i].current_floor = elevators'[i].goal_floor =>
                    ~elevators'[i].is_fulfilling_request
              /\ (/\ elevators'[i].current_floor = elevators'[i].goal_floor
                  /\ elevators'[i].is_fulfilling_request) =>
                    elevators'[i].current_floor # elevators[i].current_floor]_vars

\* After a step() has returned: one elevator has just been moved onto its
\* goal floor and is still busy, another stood on its goal floor at the end
\* of its trip and is not busy any more.
C16_Witness ==
    /\ lastCall.op = "step"
    /\ lastCall.ok
    /\ \E i, j \in ElevatorIds :
          /\ trip[i].active /\ TripLength(i) >= 1 /\ trip[i].steps = TripLength(i)
          /\ elevators[i].current_floor = elevators[i].goal_floor
          /\ elevators[i].is_fulfilling_request
          /\ trip[j].active /\ TripLength(j) >= 1 /\ trip[j].steps = TripLength(j) + 1
          /\ elevators[j].current_floor = elevators[j].goal_floor
          /\ ~elevators[j].is_fulfilling_request

----------------------------------------------------------------------------

\* C17 as stated: every busy elevator stood on a floor other than the
\* pickup floor when step() assigned it the request it is serving.
C17_Original ==
    \A i \in ElevatorIds :
        (elevators[i].is_fulfilling_request /\ trip[i].active) =>
            trip[i].from # trip[i].to

----------------------------------------------------------------------------

\* C18: a step() assigns a request only to an elevator that is not busy when
\* the request is processed; so no two requests of one step() go to the
\* same elevator, a step() leaves the goal_floor of an elevator that was
\* busy before it alone, and a step() that starts with more requests than
\* elevators that are not busy raises.
C18_NeverAssignsBusy ==
    [][lastCall'.op = "step" =>
          /\ \A p \in 1..Len(stepLog') : \A i \in ElevatorIds :
                stepLog'[p].found = {i} =>
                    ~stepLog'[p].before[i].is_fulfilling_request
          /\ \A p, q \in 1..Len(stepLog') :
                (p < q /\ stepLog'[p].found # {}) =>
                    stepLog'[p].found # stepLog'[q].found
          /\ \A i \in ElevatorIds :
                elevators[i].is_fulfilling_request =>
                    elevators'[i].goal_floor = elevators[i].goal_floor
          /\ Len(pickup_requests) > FreeCount => ~lastCall'.ok]_vars

\* A step() on two elevators started with three requests: it gave the first
\* two to different elevators and raised on the third.
C18_Witness ==
    /\ lastCall.op = "step"
    /\ ~lastCall.ok
    /\ built = 2
    /\ Len(stepLog) = 3
    /\ stepLog[1].found # {}
    /\ stepLog[2].found # {}
    /\ stepLog[1].found # stepLog[2].found
    /\ stepLog[3].found = {}

----------------------------------------------------------------------------

ElevatorSlots == 0..(MaxElevators - 1)

\* Elevator i is serving a request that a step() assigned to it, and no
\* update() has been applied to it since.
Serving(i) == i \in ElevatorIds /\ trip[i].active

\* Elevator i stands on the pickup floor of the request it is serving.
AtPickupFloor(i) ==
    i \in ElevatorIds /\ elevators[i].current_floor = trip[i].to

\* The step() being taken assigns a request to elevator i.
AssignedNow(i) ==
    /\ lastCall'.op = "step"
    /\ \E p \in 1..Len(stepLog') : stepLog'[p].found = {i}

\* An elevator serving a request is given another goal by a step() only
\* when it stands, not busy, on the pickup floor of the request it serves.
ServedBeforeNextGoal ==
    [][\A i \in ElevatorIds :
          (trip[i].active /\ AssignedNow(i)) =>
              /\ elevators[i].current_floor = trip[i].to
              /\ ~elevators[i].is_fulfilling_request]_vars

====
